---------------------------- MODULE Spec2Model ----------------------------
(***************************************************************************)
(* Model of software/healthcheck.c: the online health check of the         *)
(* Infinite Noise Multiplier bit stream.                                   *)
(*                                                                         *)
(* The C file keeps its state in file-scope statics.  The model keeps them *)
(* in one record, inm, whose fields carry the names of the statics.  The   *)
(* four occurrence tables are heap blocks: a pointer is NULL, LIVE (it     *)
(* designates an allocated block) or FREED (it designates a block that was *)
(* released: a dangling pointer).  The contents of a table are a function  *)
(* from the cells written so far to their counts; a cell never written     *)
(* holds the 0 calloc put there.                                           *)
(*                                                                         *)
(* double inmCurrentProbability is kept as a fixed-point number with       *)
(* ProbBits fractional bits, products rounded up.  Doubling is exact, as   *)
(* it is for a double, and a product is at or below 0.5 after rounding     *)
(* exactly when it is before; the value itself can differ from the double  *)
(* in its last bits.  inmExpectedEntropyPerBit = log(K)/log(2) is kept as  *)
(* a fraction.  The debug report of inmHealthCheckAddBit (lines 164-171)   *)
(* writes to stderr and assigns nothing: it has no part in the model.      *)
(***************************************************************************)
EXTENDS Integers, Sequences, FiniteSets, TLC

----------------------------------------------------------------------------
(* Program constants                                                       *)

INM_MIN_DATA == 80000

INM_MIN_SAMPLE_SIZE == 100

INM_ACCURACY_NUM == 102

INM_ACCURACY_DEN == 100

INM_MAX_SEQUENCE == 20

INM_MAX_COUNT == 16384

INM_MAX_ENTROPY == 1600

MIN_N == 1

MAX_N == 30

Pow2(n) == 2 ^ n

\* 1.0 and 0.5 of the running probability, in fixed point.
ProbBits == 17

PROB_ONE == Pow2(ProbBits)

\* 0.25, a threshold of the emission loop set one bit too low
PROB_QUARTER == Pow2(ProbBits - 2)

PROB_HALF == Pow2(ProbBits - 1)

----------------------------------------------------------------------------
(* Heap blocks and table contents                                          *)

NULL == "NULL"

LIVE == "LIVE"

FREED == "FREED"

EmptyTable == [i \in {} |-> 0]

\* t[i] of a calloc'ed table
Cell(t, i) == IF i \in DOMAIN t THEN t[i] ELSE 0

\* t[i] = v
SetCell(t, i, v) ==
    IF i \in DOMAIN t THEN [t EXCEPT ![i] = v]
    ELSE [j \in (DOMAIN t) \cup {i} |-> IF j = i THEN v ELSE t[j]]

\* t[i]++
IncCell(t, i) == SetCell(t, i, Cell(t, i) + 1)

\* t[i] >>= 1 for every i; cells back at 0 are as calloc left them
HalveTable(t) == [j \in {i \in DOMAIN t : t[i] \div 2 > 0} |-> t[j] \div 2]

----------------------------------------------------------------------------
(* The statics at program load: zero, NULL, false                          *)

ZeroStatics ==
    [ inmN |-> 0, inmPrevBits |-> 0, inmNumBitsSampled |-> 0,
      inmOnesEven |-> NULL, inmZerosEven |-> NULL,
      inmOnesOdd |-> NULL, inmZerosOdd |-> NULL,
      memOnesEven |-> EmptyTable, memZerosEven |-> EmptyTable,
      memOnesOdd |-> EmptyTable, memZerosOdd |-> EmptyTable,
      inmK |-> 0, inmExpectedEntropyPerBit |-> <<0, 1>>,
      inmNumBitsOfEntropy |-> 0, inmCurrentProbability |-> 0,
      inmTotalBits |-> 0, inmPrevBit |-> FALSE, inmEntropyLevel |-> 0,
      inmNumSequentialZeros |-> 0, inmNumSequentialOnes |-> 0,
      inmTotalOnes |-> 0, inmTotalZeros |-> 0,
      inmEvenMisfires |-> 0, inmOddMisfires |-> 0,
      inmPrevEven |-> FALSE, inmPrevOdd |-> FALSE, inmDebug |-> FALSE ]

----------------------------------------------------------------------------
(* Estimators and the validity verdict                                     *)

\* log(K)/log(2) for the gains the model starts the engine with, K given in
\* hundredths: 1.00, 1.82 (0.8639..., kept as 108/125), 2.00 and 4.00.
Log2Gain(K) ==
    CASE K = 100 -> <<0, 1>>
      [] K = 182 -> <<108, 125>>
      [] K = 200 -> <<1, 1>>
      [] K = 400 -> <<2, 1>>

\* entropy*INM_ACCURACY >= expected && entropy/INM_ACCURACY <= expected, with
\* entropy = (double)bits/sampled.  0/0 is NaN and x/0 is +inf: both fail.
EntropyWithinAccuracy(bits, sampled, e) ==
    /\ sampled > 0
    /\ bits * INM_ACCURACY_NUM * e[2] >= e[1] * sampled * INM_ACCURACY_DEN
    /\ bits * INM_ACCURACY_DEN * e[2] <= e[1] * sampled * INM_ACCURACY_NUM

\* the verdict without its floor on the bits processed
OkToUseDataNoFloor(s) ==
    EntropyWithinAccuracy(s.inmNumBitsOfEntropy, s.inmNumBitsSampled,
                          s.inmExpectedEntropyPerBit)

inmHealthCheckOkToUseData(s) ==
    /\ s.inmTotalBits >= INM_MIN_DATA
    /\ EntropyWithinAccuracy(s.inmNumBitsOfEntropy, s.inmNumBitsSampled,
                             s.inmExpectedEntropyPerBit)

inmGetEntropyLevel(s) == s.inmEntropyLevel

\* a clear that resets the statistics with the level
ClearByResetStats(s) ==
    [s EXCEPT !.inmEntropyLevel = 0, !.inmNumBitsOfEntropy = 0,
              !.inmNumBitsSampled = 0]

inmClearEntropyLevel(s) == [s EXCEPT !.inmEntropyLevel = 0]

----------------------------------------------------------------------------
(* Lifecycle                                                               *)

\* free(p) as stop() guards it: a NULL pointer is skipped, and the pointer
\* keeps its value, so after the call it designates a released block.
FreeTable(p) == IF p # NULL THEN FREED ELSE p

\* The pointers stop() hands to free() although their block is released.
FreedAgain(s) ==
    {p \in {"inmOnesEven", "inmZerosEven", "inmOnesOdd", "inmZerosOdd"} :
        s[p] = FREED}

inmHealthCheckStop(s) ==
    [s EXCEPT !.inmOnesEven = FreeTable(s.inmOnesEven),
              !.inmZerosEven = FreeTable(s.inmZerosEven),
              !.inmOnesOdd = FreeTable(s.inmOnesOdd),
              !.inmZerosOdd = FreeTable(s.inmZerosOdd)]

resetStats(s) ==
    [s EXCEPT !.inmNumBitsSampled = 0, !.inmCurrentProbability = PROB_ONE,
              !.inmNumBitsOfEntropy = 0, !.inmEntropyLevel = 0,
              !.inmTotalOnes = 0, !.inmTotalZeros = 0,
              !.inmEvenMisfires = 0, !.inmOddMisfires = 0]

\* the width check without its lower end
ValidNNoLowerEnd(N) == ~(N > MAX_N)

\* if(N < 1 || N > 30) return false;
ValidN(N) == ~(N < MIN_N \/ N > MAX_N)

\* calloc(1u << N, sizeof(uint32_t)): a zeroed block, or NULL
Calloc(ok) == IF ok THEN LIVE ELSE NULL

AnyTableNull(s) ==
    \/ s.inmOnesEven = NULL \/ s.inmZerosEven = NULL
    \/ s.inmOnesOdd = NULL \/ s.inmZerosOdd = NULL

\* The statics after inmHealthCheckStart(N, K, debug); alloc[i] tells whether
\* the i-th calloc succeeds.  inmPrevEven and inmPrevOdd are not assigned.
StartAssign(s, N, K, debug, alloc) ==
    resetStats(
      [s EXCEPT !.inmDebug = debug, !.inmNumBitsOfEntropy = 0,
                !.inmCurrentProbability = PROB_ONE, !.inmK = K, !.inmN = N,
                !.inmPrevBits = 0,
                !.inmOnesEven = Calloc(alloc[1]), !.memOnesEven = EmptyTable,
                !.inmZerosEven = Calloc(alloc[2]), !.memZerosEven = EmptyTable,
                !.inmOnesOdd = Calloc(alloc[3]), !.memOnesOdd = EmptyTable,
                !.inmZerosOdd = Calloc(alloc[4]), !.memZerosOdd = EmptyTable,
                !.inmExpectedEntropyPerBit = Log2Gain(K),
                !.inmTotalBits = 0, !.inmPrevBit = FALSE,
                !.inmNumSequentialZeros = 0, !.inmNumSequentialOnes = 0])

inmHealthCheckStart(s, N, K, debug, alloc) ==
    IF ~ValidN(N) THEN [st |-> s, ok |-> FALSE]
    ELSE LET s1 == StartAssign(s, N, K, debug, alloc)
         IN IF AnyTableNull(s1)
            THEN [st |-> inmHealthCheckStop(s1), ok |-> FALSE]
            ELSE [st |-> s1, ok |-> TRUE]

TablesLive(s) ==
    /\ s.inmOnesEven = LIVE /\ s.inmZerosEven = LIVE
    /\ s.inmOnesOdd = LIVE /\ s.inmZerosOdd = LIVE

----------------------------------------------------------------------------
(* Counter scaling                                                         *)

\* scaling that forgets the odd lane's tables
scaleStatsEvenOnly(s) ==
    [s EXCEPT !.memZerosEven = HalveTable(s.memZerosEven),
              !.memOnesEven = HalveTable(s.memOnesEven)]

scaleStats(s) ==
    [s EXCEPT !.memZerosEven = HalveTable(s.memZerosEven),
              !.memOnesEven = HalveTable(s.memOnesEven),
              !.memZerosOdd = HalveTable(s.memZerosOdd),
              !.memOnesOdd = HalveTable(s.memOnesOdd)]

\* the halving that forgets the misfire counters
scaleEntropyCountsOnly(s) ==
    IF s.inmNumBitsSampled = INM_MIN_DATA
    THEN [s EXCEPT !.inmNumBitsOfEntropy = @ \div 2,
                   !.inmNumBitsSampled = @ \div 2]
    ELSE s

\* the counters started over at the ceiling instead of halved
scaleEntropyRestart(s) ==
    IF s.inmNumBitsSampled = INM_MIN_DATA
    THEN [s EXCEPT !.inmNumBitsOfEntropy = 0, !.inmNumBitsSampled = 0,
                   !.inmEvenMisfires = 0, !.inmOddMisfires = 0]
    ELSE s

scaleEntropy(s) ==
    IF s.inmNumBitsSampled = INM_MIN_DATA
    THEN [s EXCEPT !.inmNumBitsOfEntropy = @ \div 2,
                   !.inmNumBitsSampled = @ \div 2,
                   !.inmEvenMisfires = @ \div 2, !.inmOddMisfires = @ \div 2]
    ELSE s

scaleZeroOneCounts(s) ==
    LET maxVal == IF s.inmTotalZeros >= s.inmTotalOnes
                  THEN s.inmTotalZeros ELSE s.inmTotalOnes
    IN IF maxVal = INM_MIN_DATA
       THEN [s EXCEPT !.inmTotalZeros = @ \div 2, !.inmTotalOnes = @ \div 2]
       ELSE s

----------------------------------------------------------------------------
(* inmHealthCheckAddBit, block by block                                    *)

\* lines 149-163: the observed bit, the misfire counters, the stored lane bits
ObservedBit(evenBit, oddBit, even) == IF even THEN evenBit ELSE oddBit

Misfires(s, evenBit, oddBit, even) ==
    [s EXCEPT !.inmEvenMisfires =
                  IF even /\ evenBit # s.inmPrevEven THEN @ + 1 ELSE @,
              !.inmOddMisfires =
                  IF ~even /\ oddBit # s.inmPrevOdd THEN @ + 1 ELSE @,
              !.inmPrevEven = evenBit, !.inmPrevOdd = oddBit,
              !.inmTotalBits = @ + 1]

\* the shift without its mask
MaskNone(x, N) == x

\* (inmPrevBits << 1) & ((1 << inmN)-1); inmPrevBits stays below 2^30, so the
\* 32-bit shift drops nothing before the mask.
MaskN(x, N) == x % Pow2(N)

\* the observed bit shifted in instead of the stored one
AdvanceContextWithCurrent(s, bit) ==
    [s EXCEPT !.inmPrevBits = MaskN(s.inmPrevBits * 2, s.inmN)
                              + (IF bit THEN 1 ELSE 0),
              !.inmPrevBit = bit]

\* lines 172-176: the stored previous bit is shifted in, then replaced
AdvanceContext(s, bit) ==
    [s EXCEPT !.inmPrevBits = MaskN(s.inmPrevBits * 2, s.inmN)
                              + (IF s.inmPrevBit THEN 1 ELSE 0),
              !.inmPrevBit = bit]

\* the guard opening one call early
GuardFromHundred(s) == s.inmNumBitsSampled >= 100

\* if(inmNumBitsSampled > 100)
GuardActive(s) == s.inmNumBitsSampled > 100

\* the run check tripping one bit early
SequenceReached(n) == n >= INM_MAX_SEQUENCE

\* inmNumSequentialOnes > INM_MAX_SEQUENCE, the same for zeros
SequenceExceeded(n) == n > INM_MAX_SEQUENCE

\* lines 177-195, up to the exit(1)
RunLengths(s, bit) ==
    IF ~GuardActive(s) THEN s
    ELSE IF bit
         THEN [s EXCEPT !.inmTotalOnes = @ + 1,
                        !.inmNumSequentialOnes = @ + 1,
                        !.inmNumSequentialZeros = 0]
         ELSE [s EXCEPT !.inmTotalZeros = @ + 1,
                        !.inmNumSequentialZeros = @ + 1,
                        !.inmNumSequentialOnes = 0]

Fatal(s) ==
    \/ SequenceExceeded(s.inmNumSequentialOnes)
    \/ SequenceExceeded(s.inmNumSequentialZeros)

\* lines 196-203
LookupZeros(s, even) ==
    IF even THEN Cell(s.memZerosEven, s.inmPrevBits)
            ELSE Cell(s.memZerosOdd, s.inmPrevBits)

LookupOnes(s, even) ==
    IF even THEN Cell(s.memOnesEven, s.inmPrevBits)
            ELSE Cell(s.memOnesOdd, s.inmPrevBits)

\* inmCurrentProbability *= (double)count/total
ProbMul(p, count, total) == (p * count + total - 1) \div total

\* a zero count taken for an even chance
UpdateProbabilityGuessing(s, bit, even) ==
    LET zeros == LookupZeros(s, even)
        ones == LookupOnes(s, even)
        count == IF bit THEN ones ELSE zeros
    IN [s EXCEPT !.inmCurrentProbability =
                     IF count # 0
                     THEN ProbMul(s.inmCurrentProbability, count, zeros + ones)
                     ELSE ProbMul(s.inmCurrentProbability, 1, 2)]

\* lines 204-213
UpdateProbability(s, bit, even) ==
    LET zeros == LookupZeros(s, even)
        ones == LookupOnes(s, even)
        total == zeros + ones
        count == IF bit THEN ones ELSE zeros
    IN IF count # 0
       THEN [s EXCEPT !.inmCurrentProbability =
                          ProbMul(s.inmCurrentProbability, count, total)]
       ELSE s

\* the level raised without the cap
MayRaiseLevelUncapped(s) == inmHealthCheckOkToUseData(s)

\* the level raised without the verdict
MayRaiseLevelUngated(s) == s.inmEntropyLevel < INM_MAX_ENTROPY

\* if(inmHealthCheckOkToUseData() && inmEntropyLevel < INM_MAX_ENTROPY)
MayRaiseLevel(s) ==
    inmHealthCheckOkToUseData(s) /\ s.inmEntropyLevel < INM_MAX_ENTROPY

\* lines 214-220.  e.st is the statics; e.credited counts the passes of the
\* loop, e.okPasses those that found the verdict true.
\* the emission loop written as a single conditional doubling
EmitEntropyOnce(e) ==
    IF e.st.inmCurrentProbability <= PROB_HALF
    THEN LET s1 == [e.st EXCEPT !.inmCurrentProbability = @ * 2,
                                !.inmNumBitsOfEntropy = @ + 1]
             s2 == IF MayRaiseLevel(s1)
                   THEN [s1 EXCEPT !.inmEntropyLevel = @ + 1] ELSE s1
         IN [st |-> s2, credited |-> e.credited + 1,
             okPasses |-> e.okPasses
                 + (IF inmHealthCheckOkToUseData(s1) THEN 1 ELSE 0)]
    ELSE e

RECURSIVE EmitEntropy(_)
EmitEntropy(e) ==
    IF e.st.inmCurrentProbability <= PROB_HALF
    THEN LET s1 == [e.st EXCEPT !.inmCurrentProbability = @ * 2,
                                !.inmNumBitsOfEntropy = @ + 1]
             s2 == IF MayRaiseLevel(s1)
                   THEN [s1 EXCEPT !.inmEntropyLevel = @ + 1] ELSE s1
         IN EmitEntropy([st |-> s2, credited |-> e.credited + 1,
                         okPasses |-> e.okPasses
                             + (IF inmHealthCheckOkToUseData(s1) THEN 1 ELSE 0)])
    ELSE e

\* the ceiling test missing the ceiling itself
CountAboveCeiling(c) == c > INM_MAX_COUNT

\* The cell lines 223-247 increment reached INM_MAX_COUNT.
CountAtCeiling(c) == c = INM_MAX_COUNT

\* lines 222-247
UpdateTables(s, bit, even) ==
    LET i == s.inmPrevBits
        s1 == [s EXCEPT !.inmNumBitsSampled = @ + 1]
        s2 == IF bit
              THEN IF even
                   THEN [s1 EXCEPT !.memOnesEven = IncCell(s.memOnesEven, i)]
                   ELSE [s1 EXCEPT !.memOnesOdd = IncCell(s.memOnesOdd, i)]
              ELSE IF even
                   THEN [s1 EXCEPT !.memZerosEven = IncCell(s.memZerosEven, i)]
                   ELSE [s1 EXCEPT !.memZerosOdd = IncCell(s.memZerosOdd, i)]
        c == IF bit
             THEN IF even THEN s2.memOnesEven[i] ELSE s2.memOnesOdd[i]
             ELSE IF even THEN s2.memZerosEven[i] ELSE s2.memZerosOdd[i]
    IN [st |-> IF CountAtCeiling(c) THEN scaleStats(s2) ELSE s2,
        scaled |-> CountAtCeiling(c), count |-> c]

\* One call.  st: the statics when the call ends (at exit(1) when fatal);
\* fatal: the call ended in exit(1); the other fields record what the call
\* did: the table index it used, the passes of the emission loop, the count
\* the incremented cell reached and whether the tables were scaled.
inmHealthCheckAddBit(s, evenBit, oddBit, even) ==
    LET bit == ObservedBit(evenBit, oddBit, even)
        s1 == Misfires(s, evenBit, oddBit, even)
        s2 == AdvanceContext(s1, bit)
        s3 == RunLengths(s2, bit)
    IN IF Fatal(s3)
       THEN [st |-> s3, fatal |-> TRUE, index |-> s3.inmPrevBits,
             credited |-> 0, okPasses |-> 0, scaled |-> FALSE, count |-> 0]
       ELSE LET s4 == UpdateProbability(s3, bit, even)
                e == EmitEntropy([st |-> s4, credited |-> 0, okPasses |-> 0])
                u == UpdateTables(e.st, bit, even)
            IN [st |-> scaleZeroOneCounts(scaleEntropy(u.st)),
                fatal |-> FALSE, index |-> s3.inmPrevBits,
                credited |-> e.credited, okPasses |-> e.okPasses,
                scaled |-> u.scaled, count |-> u.count]

----------------------------------------------------------------------------
(* The state machine                                                       *)

VARIABLES
    inm,    \* the statics of healthcheck.c
    proc,   \* the process: "running", "exited" (exit(1)), "aborted"
    last,   \* the last call: what it was given and what it did
    hist,   \* history kept for the properties, not read by the program
    heap,   \* the heap: blocks leaked, blocks handed to free() twice
    used    \* how many calls the explored run has made so far

vars == <<inm, proc, last, hist, heap, used>>

NoCall ==
    [op |-> "none", ok |-> TRUE, fatal |-> FALSE, index |-> 0, credited |-> 0,
     okPasses |-> 0, scaled |-> FALSE, count |-> 0, value |-> 0,
     N |-> 0, alloc |-> <<TRUE, TRUE, TRUE, TRUE>>, even |-> FALSE,
     bit |-> FALSE]

\* calls: inmHealthCheckAddBit calls since the last inmHealthCheckStart that
\* returned true.  run: how many of the most recent calls, each made with
\* more than INM_MIN_SAMPLE_SIZE earlier calls behind it, observed the same
\* bit, runBit.
\* window: the N most recent observed bits, the latest least significant, 0
\* where there is no call yet: a shift register that takes each observed
\* bit in when its call ends.
NoHistory == [calls |-> 0, run |-> 0, runBit |-> FALSE, window |-> 0]

HistoryAfter(h, bit, N) ==
    [calls |-> h.calls + 1,
     run |-> IF h.calls > INM_MIN_SAMPLE_SIZE
             THEN (IF h.run > 0 /\ h.runBit = bit THEN h.run + 1 ELSE 1)
             ELSE 0,
     runBit |-> bit,
     window |-> (2 * h.window + (IF bit THEN 1 ELSE 0)) % (2 ^ N)]

NoHeap == [leaked |-> 0, freedTwice |-> FALSE]

\* The engine with its history, as one value.
Loaded == [inm |-> ZeroStatics, proc |-> "running", last |-> NoCall,
           hist |-> NoHistory, heap |-> NoHeap]

\* Blocks that are allocated and that s designates.
LiveBlocks(s) ==
    Cardinality({p \in {"inmOnesEven", "inmZerosEven", "inmOnesOdd",
                        "inmZerosOdd"} : s[p] = LIVE})

\* start overwrites the four pointers without releasing what they designate;
\* on an allocation failure its stop() releases the blocks just allocated.
CallStart(c, N, K, debug, alloc) ==
    LET r == inmHealthCheckStart(c.inm, N, K, debug, alloc)
    IN [inm |-> r.st, proc |-> c.proc,
        last |-> [NoCall EXCEPT !.op = "start", !.ok = r.ok, !.N = N,
                                !.alloc = alloc],
        hist |-> IF r.ok THEN NoHistory ELSE c.hist,
        heap |-> IF ValidN(N)
                 THEN [c.heap EXCEPT !.leaked = c.heap.leaked + LiveBlocks(c.inm)]
                 ELSE c.heap]

\* free() of a released block is undefined: the allocator may abort the
\* process or carry on; abort tells which.
CallStop(c, abort) ==
    [inm |-> inmHealthCheckStop(c.inm),
     proc |-> IF FreedAgain(c.inm) # {} /\ abort THEN "aborted" ELSE c.proc,
     last |-> [NoCall EXCEPT !.op = "stop"],
     hist |-> c.hist,
     heap |-> IF FreedAgain(c.inm) # {}
              THEN [c.heap EXCEPT !.freedTwice = TRUE] ELSE c.heap]

CallAddBit(c, in) ==
    LET r == inmHealthCheckAddBit(c.inm, in[1], in[2], in[3])
    IN [inm |-> r.st,
        proc |-> IF r.fatal THEN "exited" ELSE c.proc,
        last |-> [NoCall EXCEPT !.op = "addBit", !.ok = ~r.fatal,
                                !.fatal = r.fatal, !.index = r.index,
                                !.credited = r.credited,
                                !.okPasses = r.okPasses,
                                !.scaled = r.scaled, !.count = r.count,
                                !.even = in[3],
                                !.bit = ObservedBit(in[1], in[2], in[3])],
        hist |-> HistoryAfter(c.hist, ObservedBit(in[1], in[2], in[3]),
                              c.inm.inmN),
        heap |-> c.heap]

CallGetEntropyLevel(c) ==
    [c EXCEPT !.last = [NoCall EXCEPT !.op = "getEntropyLevel",
                                      !.value = inmGetEntropyLevel(c.inm)]]

CallClearEntropyLevel(c) ==
    [c EXCEPT !.inm = inmClearEntropyLevel(c.inm),
              !.last = [NoCall EXCEPT !.op = "clearEntropyLevel"]]

----------------------------------------------------------------------------
(* Long runs.  The floors and ceilings of the engine lie tens of thousands *)
(* of calls after start, so the explored runs begin in states the engine   *)
(* is in after a fixed bit stream.  Each state below is the statics of     *)
(* healthcheck.c after inmHealthCheckStart(1, 2.0, false) (but for the     *)
(* last one) and the given number of inmHealthCheckAddBit calls of the     *)
(* stream, with inmCurrentProbability rounded up to ProbBits bits.         *)
(*                                                                         *)
(* The k-th call of the stream observes ((k-1) div 2) mod 2, so the bits   *)
(* go 0,0,1,1,0,0,1,1,...  Every fourth group of four calls is made for    *)
(* the odd lane with evenBit = 1, the other groups for the even lane with  *)
(* oddBit = 1.  Each lane then sees a 0 and a 1 equally often after either *)
(* context, which is one bit of entropy per bit.                           *)

\* after calls 1..99: one call short of INM_MIN_SAMPLE_SIZE calls
AtWarmUp ==
    [inm |->
      [inmN |-> 1, inmPrevBits |-> 0, inmNumBitsSampled |-> 99,
       inmOnesEven |-> LIVE, inmZerosEven |-> LIVE,
       inmOnesOdd |-> LIVE, inmZerosOdd |-> LIVE,
       memOnesEven |-> (0 :> 19 @@ 1 :> 18),
       memZerosEven |-> (0 :> 20 @@ 1 :> 18),
       memOnesOdd |-> (0 :> 6 @@ 1 :> 6),
       memZerosOdd |-> (0 :> 6 @@ 1 :> 6),
       inmK |-> 200, inmExpectedEntropyPerBit |-> <<1, 1>>,
       inmNumBitsOfEntropy |-> 97, inmCurrentProbability |-> 98556,
       inmTotalBits |-> 99, inmPrevBit |-> TRUE,
       inmEntropyLevel |-> 0,
       inmNumSequentialZeros |-> 0, inmNumSequentialOnes |-> 0,
       inmTotalOnes |-> 0, inmTotalZeros |-> 0,
       inmEvenMisfires |-> 37, inmOddMisfires |-> 12,
       inmPrevEven |-> TRUE, inmPrevOdd |-> TRUE, inmDebug |-> FALSE],
     proc |-> "running", last |-> NoCall,
     hist |-> [calls |-> 99, run |-> 0, runBit |-> TRUE,
              window |-> 1],
     heap |-> NoHeap]

\* after calls 1..100: the next call finds inmNumBitsSampled = 100
AtGuard ==
    [inm |->
      [inmN |-> 1, inmPrevBits |-> 1, inmNumBitsSampled |-> 100,
       inmOnesEven |-> LIVE, inmZerosEven |-> LIVE,
       inmOnesOdd |-> LIVE, inmZerosOdd |-> LIVE,
       memOnesEven |-> (0 :> 19 @@ 1 :> 19),
       memZerosEven |-> (0 :> 20 @@ 1 :> 18),
       memOnesOdd |-> (0 :> 6 @@ 1 :> 6),
       memZerosOdd |-> (0 :> 6 @@ 1 :> 6),
       inmK |-> 200, inmExpectedEntropyPerBit |-> <<1, 1>>,
       inmNumBitsOfEntropy |-> 98, inmCurrentProbability |-> 98556,
       inmTotalBits |-> 100, inmPrevBit |-> TRUE,
       inmEntropyLevel |-> 0,
       inmNumSequentialZeros |-> 0, inmNumSequentialOnes |-> 0,
       inmTotalOnes |-> 0, inmTotalZeros |-> 0,
       inmEvenMisfires |-> 37, inmOddMisfires |-> 12,
       inmPrevEven |-> TRUE, inmPrevOdd |-> TRUE, inmDebug |-> FALSE],
     proc |-> "running", last |-> NoCall,
     hist |-> [calls |-> 100, run |-> 0, runBit |-> TRUE,
              window |-> 1],
     heap |-> NoHeap]

\* after calls 1..104 and then 17 calls (1, 1, even): the last 19 calls
\* observed 1
RunOfOnes ==
    [inm |->
      [inmN |-> 1, inmPrevBits |-> 1, inmNumBitsSampled |-> 121,
       inmOnesEven |-> LIVE, inmZerosEven |-> LIVE,
       inmOnesOdd |-> LIVE, inmZerosOdd |-> LIVE,
       memOnesEven |-> (0 :> 20 @@ 1 :> 37),
       memZerosEven |-> (0 :> 21 @@ 1 :> 19),
       memOnesOdd |-> (0 :> 6 @@ 1 :> 6),
       memZerosOdd |-> (0 :> 6 @@ 1 :> 6),
       inmK |-> 200, inmExpectedEntropyPerBit |-> <<1, 1>>,
       inmNumBitsOfEntropy |-> 115, inmCurrentProbability |-> 96422,
       inmTotalBits |-> 121, inmPrevBit |-> TRUE,
       inmEntropyLevel |-> 0,
       inmNumSequentialZeros |-> 0, inmNumSequentialOnes |-> 19,
       inmTotalOnes |-> 19, inmTotalZeros |-> 1,
       inmEvenMisfires |-> 39, inmOddMisfires |-> 12,
       inmPrevEven |-> TRUE, inmPrevOdd |-> TRUE, inmDebug |-> FALSE],
     proc |-> "running", last |-> NoCall,
     hist |-> [calls |-> 121, run |-> 19, runBit |-> TRUE,
              window |-> 1],
     heap |-> NoHeap]

\* after calls 1..106 and then 17 calls (0, 0, even): the last 19 calls
\* observed 0
RunOfZeros ==
    [inm |->
      [inmN |-> 1, inmPrevBits |-> 0, inmNumBitsSampled |-> 123,
       inmOnesEven |-> LIVE, inmZerosEven |-> LIVE,
       inmOnesOdd |-> LIVE, inmZerosOdd |-> LIVE,
       memOnesEven |-> (0 :> 20 @@ 1 :> 20),
       memZerosEven |-> (0 :> 39 @@ 1 :> 20),
       memOnesOdd |-> (0 :> 6 @@ 1 :> 6),
       memZerosOdd |-> (0 :> 6 @@ 1 :> 6),
       inmK |-> 200, inmExpectedEntropyPerBit |-> <<1, 1>>,
       inmNumBitsOfEntropy |-> 117, inmCurrentProbability |-> 111304,
       inmTotalBits |-> 123, inmPrevBit |-> FALSE,
       inmEntropyLevel |-> 0,
       inmNumSequentialZeros |-> 19, inmNumSequentialOnes |-> 0,
       inmTotalOnes |-> 2, inmTotalZeros |-> 20,
       inmEvenMisfires |-> 40, inmOddMisfires |-> 12,
       inmPrevEven |-> FALSE, inmPrevOdd |-> FALSE, inmDebug |-> FALSE],
     proc |-> "running", last |-> NoCall,
     hist |-> [calls |-> 123, run |-> 19, runBit |-> FALSE,
              window |-> 0],
     heap |-> NoHeap]

\* after calls 1..79998: two calls short of INM_MIN_DATA calls
AtFloor ==
    [inm |->
      [inmN |-> 1, inmPrevBits |-> 0, inmNumBitsSampled |-> 79998,
       inmOnesEven |-> LIVE, inmZerosEven |-> LIVE,
       inmOnesOdd |-> LIVE, inmZerosOdd |-> LIVE,
       memOnesEven |-> (0 :> 15000 @@ 1 :> 15000),
       memZerosEven |-> (0 :> 15001 @@ 1 :> 14999),
       memOnesOdd |-> (0 :> 4999 @@ 1 :> 4999),
       memZerosOdd |-> (0 :> 5000 @@ 1 :> 5000),
       inmK |-> 200, inmExpectedEntropyPerBit |-> <<1, 1>>,
       inmNumBitsOfEntropy |-> 80015, inmCurrentProbability |-> 72367,
       inmTotalBits |-> 79998, inmPrevBit |-> FALSE,
       inmEntropyLevel |-> 0,
       inmNumSequentialZeros |-> 2, inmNumSequentialOnes |-> 0,
       inmTotalOnes |-> 39948, inmTotalZeros |-> 39949,
       inmEvenMisfires |-> 29999, inmOddMisfires |-> 9999,
       inmPrevEven |-> TRUE, inmPrevOdd |-> FALSE, inmDebug |-> FALSE],
     proc |-> "running", last |-> NoCall,
     hist |-> [calls |-> 79998, run |-> 2, runBit |-> FALSE,
              window |-> 0],
     heap |-> NoHeap]

\* after calls 1..81598: the verdict holds and the entropy level is one short
\* of INM_MAX_ENTROPY
AtCap ==
    [inm |->
      [inmN |-> 1, inmPrevBits |-> 0, inmNumBitsSampled |-> 41598,
       inmOnesEven |-> LIVE, inmZerosEven |-> LIVE,
       inmOnesOdd |-> LIVE, inmZerosOdd |-> LIVE,
       memOnesEven |-> (0 :> 15300 @@ 1 :> 15300),
       memZerosEven |-> (0 :> 15301 @@ 1 :> 15299),
       memOnesOdd |-> (0 :> 5099 @@ 1 :> 5099),
       memZerosOdd |-> (0 :> 5100 @@ 1 :> 5100),
       inmK |-> 200, inmExpectedEntropyPerBit |-> <<1, 1>>,
       inmNumBitsOfEntropy |-> 41606, inmCurrentProbability |-> 69557,
       inmTotalBits |-> 81598, inmPrevBit |-> FALSE,
       inmEntropyLevel |-> 1599,
       inmNumSequentialZeros |-> 2, inmNumSequentialOnes |-> 0,
       inmTotalOnes |-> 40748, inmTotalZeros |-> 40749,
       inmEvenMisfires |-> 15599, inmOddMisfires |-> 5199,
       inmPrevEven |-> TRUE, inmPrevOdd |-> FALSE, inmDebug |-> FALSE],
     proc |-> "running", last |-> NoCall,
     hist |-> [calls |-> 81598, run |-> 2, runBit |-> FALSE,
              window |-> 0],
     heap |-> NoHeap]

\* after calls 1..87369: inmZerosEven[0] is one short of INM_MAX_COUNT
AtCeiling ==
    [inm |->
      [inmN |-> 1, inmPrevBits |-> 1, inmNumBitsSampled |-> 47369,
       inmOnesEven |-> LIVE, inmZerosEven |-> LIVE,
       inmOnesOdd |-> LIVE, inmZerosOdd |-> LIVE,
       memOnesEven |-> (0 :> 16382 @@ 1 :> 16382),
       memZerosEven |-> (0 :> 16383 @@ 1 :> 16382),
       memOnesOdd |-> (0 :> 5460 @@ 1 :> 5460),
       memZerosOdd |-> (0 :> 5460 @@ 1 :> 5460),
       inmK |-> 200, inmExpectedEntropyPerBit |-> <<1, 1>>,
       inmNumBitsOfEntropy |-> 47378, inmCurrentProbability |-> 121330,
       inmTotalBits |-> 87369, inmPrevBit |-> FALSE,
       inmEntropyLevel |-> 1600,
       inmNumSequentialZeros |-> 1, inmNumSequentialOnes |-> 0,
       inmTotalOnes |-> 43634, inmTotalZeros |-> 43634,
       inmEvenMisfires |-> 17764, inmOddMisfires |-> 5920,
       inmPrevEven |-> FALSE, inmPrevOdd |-> TRUE, inmDebug |-> FALSE],
     proc |-> "running", last |-> NoCall,
     hist |-> [calls |-> 87369, run |-> 1, runBit |-> FALSE,
              window |-> 0],
     heap |-> NoHeap]

\* after calls 1..119998: inmNumBitsSampled, halved at call 80000, is two
\* calls short of INM_MIN_DATA again
AtSecondFloor ==
    [inm |->
      [inmN |-> 1, inmPrevBits |-> 0, inmNumBitsSampled |-> 79998,
       inmOnesEven |-> LIVE, inmZerosEven |-> LIVE,
       inmOnesOdd |-> LIVE, inmZerosOdd |-> LIVE,
       memOnesEven |-> (0 :> 14309 @@ 1 :> 14309),
       memZerosEven |-> (0 :> 14309 @@ 1 :> 14308),
       memOnesOdd |-> (0 :> 4769 @@ 1 :> 4769),
       memZerosOdd |-> (0 :> 4770 @@ 1 :> 4770),
       inmK |-> 200, inmExpectedEntropyPerBit |-> <<1, 1>>,
       inmNumBitsOfEntropy |-> 80008, inmCurrentProbability |-> 79518,
       inmTotalBits |-> 119998, inmPrevBit |-> FALSE,
       inmEntropyLevel |-> 1600,
       inmNumSequentialZeros |-> 2, inmNumSequentialOnes |-> 0,
       inmTotalOnes |-> 59948, inmTotalZeros |-> 59949,
       inmEvenMisfires |-> 29999, inmOddMisfires |-> 9999,
       inmPrevEven |-> TRUE, inmPrevOdd |-> FALSE, inmDebug |-> FALSE],
     proc |-> "running", last |-> NoCall,
     hist |-> [calls |-> 119998, run |-> 2, runBit |-> FALSE,
              window |-> 0],
     heap |-> NoHeap]

\* start(1, 2.0, false) and 32767 calls of the alternating stream 0 1 0 1
\* on the even lane: after a 0 the bit has been 1 in all but the first call,
\* so cell 0 holds one zero against 16383 ones, one short of the ceiling
AtLopsided ==
    [inm |->
      [inmN |-> 1, inmPrevBits |-> 1, inmNumBitsSampled |-> 32767,
       inmOnesEven |-> LIVE, inmZerosEven |-> LIVE,
       inmOnesOdd |-> LIVE, inmZerosOdd |-> LIVE,
       memOnesEven |-> (0 :> 16383),
       memZerosEven |-> (0 :> 1 @@ 1 :> 16383),
       memOnesOdd |-> EmptyTable,
       memZerosOdd |-> EmptyTable,
       inmK |-> 200, inmExpectedEntropyPerBit |-> <<1, 1>>,
       inmNumBitsOfEntropy |-> 13, inmCurrentProbability |-> 65541,
       inmTotalBits |-> 32767, inmPrevBit |-> FALSE,
       inmEntropyLevel |-> 0,
       inmNumSequentialZeros |-> 1, inmNumSequentialOnes |-> 0,
       inmTotalOnes |-> 16333, inmTotalZeros |-> 16333,
       inmEvenMisfires |-> 32766, inmOddMisfires |-> 0,
       inmPrevEven |-> FALSE, inmPrevOdd |-> TRUE, inmDebug |-> FALSE],
     proc |-> "running", last |-> NoCall,
     hist |-> [calls |-> 32767, run |-> 1, runBit |-> FALSE,
              window |-> 0],
     heap |-> NoHeap]

\* start(3, 2.0, false) and calls 1..45: with three bits of context the
\* stream is predictable, the matching count is the only nonzero one of its
\* cell and the probability has stayed 1.0
AtWidthThree ==
    [inm |->
      [inmN |-> 3, inmPrevBits |-> 3, inmNumBitsSampled |-> 45,
       inmOnesEven |-> LIVE, inmZerosEven |-> LIVE,
       inmOnesOdd |-> LIVE, inmZerosOdd |-> LIVE,
       memOnesEven |-> (0 :> 1 @@ 1 :> 9 @@ 4 :> 8),
       memZerosEven |-> (0 :> 2 @@ 3 :> 8 @@ 6 :> 8),
       memOnesOdd |-> (1 :> 2 @@ 4 :> 2),
       memZerosOdd |-> (3 :> 3 @@ 6 :> 2),
       inmK |-> 200, inmExpectedEntropyPerBit |-> <<1, 1>>,
       inmNumBitsOfEntropy |-> 0, inmCurrentProbability |-> 131072,
       inmTotalBits |-> 45, inmPrevBit |-> FALSE,
       inmEntropyLevel |-> 0,
       inmNumSequentialZeros |-> 0, inmNumSequentialOnes |-> 0,
       inmTotalOnes |-> 0, inmTotalZeros |-> 0,
       inmEvenMisfires |-> 17, inmOddMisfires |-> 5,
       inmPrevEven |-> TRUE, inmPrevOdd |-> FALSE, inmDebug |-> FALSE],
     proc |-> "running", last |-> NoCall,
     hist |-> [calls |-> 45, run |-> 0, runBit |-> FALSE,
              window |-> 6],
     heap |-> NoHeap]

\* start(1, 1.82, true) and calls 1..80001: one bit per bit is more than
\* INM_ACCURACY above log2(1.82), so the verdict is false past INM_MIN_DATA
Diverged ==
    [inm |->
      [inmN |-> 1, inmPrevBits |-> 1, inmNumBitsSampled |-> 40001,
       inmOnesEven |-> LIVE, inmZerosEven |-> LIVE,
       inmOnesOdd |-> LIVE, inmZerosOdd |-> LIVE,
       memOnesEven |-> (0 :> 15000 @@ 1 :> 15000),
       memZerosEven |-> (0 :> 15001 @@ 1 :> 15000),
       memOnesOdd |-> (0 :> 5000 @@ 1 :> 5000),
       memZerosOdd |-> (0 :> 5000 @@ 1 :> 5000),
       inmK |-> 182, inmExpectedEntropyPerBit |-> <<108, 125>>,
       inmNumBitsOfEntropy |-> 40009, inmCurrentProbability |-> 72350,
       inmTotalBits |-> 80001, inmPrevBit |-> FALSE,
       inmEntropyLevel |-> 0,
       inmNumSequentialZeros |-> 1, inmNumSequentialOnes |-> 0,
       inmTotalOnes |-> 39950, inmTotalZeros |-> 39950,
       inmEvenMisfires |-> 15000, inmOddMisfires |-> 5000,
       inmPrevEven |-> FALSE, inmPrevOdd |-> TRUE, inmDebug |-> TRUE],
     proc |-> "running", last |-> NoCall,
     hist |-> [calls |-> 80001, run |-> 1, runBit |-> FALSE,
              window |-> 0],
     heap |-> NoHeap]

----------------------------------------------------------------------------
(* Bounds of the explored runs                                             *)

\* inmHealthCheckAddBit calls of a run
MaxFeeds == 2

\* inmHealthCheckStart calls of a run
MaxStarts == 1

\* N of start: below, at and above the two ends of the valid range
Widths == {0, 1, 2, 30, 31}

\* K and debug of start: (1.82, true) as the test driver of the file gives
\* them, and (2.0, false); K in hundredths
Settings == {<<182, TRUE>>, <<200, FALSE>>}

\* which of the four callocs of start succeed: all, all but the last, none
Allocs ==
    {<<TRUE, TRUE, TRUE, TRUE>>, <<TRUE, TRUE, TRUE, FALSE>>,
     <<FALSE, FALSE, FALSE, FALSE>>}

Inputs == BOOLEAN \X BOOLEAN \X BOOLEAN

InitialEngines ==
    {Loaded, AtWarmUp, AtGuard, RunOfOnes, RunOfZeros, AtFloor, AtCap,
     AtCeiling, AtSecondFloor, AtLopsided, AtWidthThree, Diverged}

Cur == [inm |-> inm, proc |-> proc, last |-> last, hist |-> hist,
        heap |-> heap]

Become(c) ==
    /\ inm' = c.inm
    /\ proc' = c.proc
    /\ last' = c.last
    /\ hist' = c.hist
    /\ heap' = c.heap

Init ==
    \E c \in InitialEngines :
        /\ inm = c.inm
        /\ proc = c.proc
        /\ last = c.last
        /\ hist = c.hist
        /\ heap = c.heap
        /\ used = [feeds |-> 0, starts |-> 0]

Start ==
    /\ proc = "running"
    /\ used.starts < MaxStarts
    /\ \E N \in Widths, kd \in Settings, alloc \in Allocs :
           Become(CallStart(Cur, N, kd[1], kd[2], alloc))
    /\ used' = [used EXCEPT !.starts = @ + 1]

Stop ==
    /\ proc = "running"
    /\ \E abort \in BOOLEAN : Become(CallStop(Cur, abort))
    /\ UNCHANGED used

\* The driver feeds bits between a start that returned true and the next
\* stop: with a table absent the call reads through NULL or released memory.
AddBit ==
    /\ proc = "running"
    /\ TablesLive(inm)
    /\ used.feeds < MaxFeeds
    /\ \E in \in Inputs : Become(CallAddBit(Cur, in))
    /\ used' = [used EXCEPT !.feeds = @ + 1]

GetEntropyLevel ==
    /\ proc = "running"
    /\ Become(CallGetEntropyLevel(Cur))
    /\ UNCHANGED used

ClearEntropyLevel ==
    /\ proc = "running"
    /\ Become(CallClearEntropyLevel(Cur))
    /\ UNCHANGED used

Next ==
    \/ Start
    \/ Stop
    \/ AddBit
    \/ GetEntropyLevel
    \/ ClearEntropyLevel

Spec == Init /\ [][Next]_vars

----------------------------------------------------------------------------
(* Properties                                                              *)

TableNames == {"memOnesEven", "memZerosEven", "memOnesOdd", "memZerosOdd"}

\* The table a call increments: ones or zeros of the lane it selects.
TableOf(bit, even) ==
    IF bit THEN (IF even THEN "memOnesEven" ELSE "memOnesOdd")
           ELSE (IF even THEN "memZerosEven" ELSE "memZerosOdd")

\* C1: past the warm-up (the calls made with more than 100 calls since start
\* behind them), the addBit call that delivers the 21st consecutive identical
\* observed bit, on either lane, is fatal, no call delivering fewer is, and
\* every call that is not fatal returns success.
C1_FatalOnTheTriggeringCall ==
    last.op = "addBit" =>
        /\ hist.run <= INM_MAX_SEQUENCE + 1
        /\ last.fatal <=> hist.run = INM_MAX_SEQUENCE + 1
        /\ last.fatal <=> proc = "exited"
        /\ ~last.fatal => last.ok

\* a call on the odd lane delivers the 21st 0 in a row and is fatal
C1_Witness ==
    /\ last.op = "addBit" /\ last.fatal /\ proc = "exited"
    /\ hist.run = INM_MAX_SEQUENCE + 1 /\ ~last.even /\ ~last.bit

\* C2, as stated: the entropy level is at most INM_MAX_ENTROPY in every state,
\* and no operation other than clearEntropyLevel lowers it.
C2_OnlyClearLowersLevel ==
    /\ [](inm.inmEntropyLevel <= INM_MAX_ENTROPY)
    /\ [][last'.op # "clearEntropyLevel" =>
              inm'.inmEntropyLevel >= inm.inmEntropyLevel]_vars

\* C2, amended: the entropy level is at most INM_MAX_ENTROPY in every state,
\* and no operation lowers it other than clearEntropyLevel and a start that
\* passes the width check, both of which set it to 0.
C2_LevelCappedAndMonotonic ==
    /\ [](inm.inmEntropyLevel <= INM_MAX_ENTROPY)
    /\ [][IF \/ last'.op = "clearEntropyLevel"
             \/ last'.op = "start" /\ last'.N >= MIN_N /\ last'.N <= MAX_N
          THEN inm'.inmEntropyLevel = 0
          ELSE inm'.inmEntropyLevel >= inm.inmEntropyLevel]_vars

\* a call finds the verdict true and leaves the level at the cap
C2_Witness ==
    /\ last.op = "addBit" /\ last.okPasses > 0
    /\ inm.inmEntropyLevel = INM_MAX_ENTROPY

\* numBitsOfEntropy after a call that credited n units to it: the call that
\* brings numBitsSampled to INM_MIN_DATA halves the sum.
Credited(s, n) ==
    IF s.inmNumBitsSampled + 1 = INM_MIN_DATA
    THEN (s.inmNumBitsOfEntropy + n) \div 2
    ELSE s.inmNumBitsOfEntropy + n

\* C3, as stated: a call raises the entropy level by no more than the number
\* of its credited units that found the verdict true; a call during which the
\* verdict is false leaves the level unchanged, still credits its units to
\* numBitsOfEntropy, and is not fatal.
C3_VerdictFalseNeverFatal ==
    [][last'.op = "addBit" =>
          /\ inm'.inmEntropyLevel - inm.inmEntropyLevel <= last'.okPasses
          /\ (last'.okPasses = 0 /\ ~inmHealthCheckOkToUseData(inm')) =>
                 /\ inm'.inmEntropyLevel = inm.inmEntropyLevel
                 /\ inm'.inmNumBitsOfEntropy = Credited(inm, last'.credited)
                 /\ ~last'.fatal]_vars

\* C3, amended: a call raises the entropy level by no more than the number of
\* its credited units that found the verdict true; a call during which the
\* verdict is false leaves the level unchanged and, unless it is the fatal
\* call that delivers the 21st identical bit in a row, credits its units to
\* numBitsOfEntropy.
C3_VerdictGatesLevel ==
    [][last'.op = "addBit" =>
          /\ inm'.inmEntropyLevel - inm.inmEntropyLevel <= last'.okPasses
          /\ (last'.okPasses = 0 /\ ~inmHealthCheckOkToUseData(inm')) =>
                 /\ inm'.inmEntropyLevel = inm.inmEntropyLevel
                 /\ IF last'.fatal
                    THEN hist'.run = INM_MAX_SEQUENCE + 1
                    ELSE inm'.inmNumBitsOfEntropy
                             = Credited(inm, last'.credited)]_vars

\* past INM_MIN_DATA calls the estimate is outside the tolerance: a call
\* credits a unit, finds the verdict false and the level is still 0
C3_Witness ==
    /\ last.op = "addBit" /\ last.credited > 0 /\ last.okPasses = 0
    /\ hist.calls > INM_MIN_DATA /\ inm.inmEntropyLevel = 0
    /\ ~inmHealthCheckOkToUseData(inm)

\* C4: okToUseData() is false in every state reached by fewer than
\* INM_MIN_DATA addBit calls since start, whatever the estimate is.
C4_NoVerdictBelowFloor ==
    hist.calls < INM_MIN_DATA => ~inmHealthCheckOkToUseData(inm)

\* one call short of the floor the estimate is within the tolerance and the
\* verdict is false
C4_Witness ==
    /\ hist.calls = INM_MIN_DATA - 1 /\ last.op = "addBit"
    /\ EntropyWithinAccuracy(inm.inmNumBitsOfEntropy, inm.inmNumBitsSampled,
                             inm.inmExpectedEntropyPerBit)
    /\ ~inmHealthCheckOkToUseData(inm)

\* C5: the context-window value stays below 2^N: the index a call used for
\* its lookup and its increment, the stored value, and so every cell written.
C5_IndexBelowTableSize ==
    /\ last.op = "addBit" => last.index < Pow2(inm.inmN)
    /\ TablesLive(inm) =>
           /\ inm.inmPrevBits < Pow2(inm.inmN)
           /\ \A n \in TableNames :
                  \A i \in DOMAIN inm[n] : i < Pow2(inm.inmN)

\* with N = 1 a call uses index 1 after a call that used index 1: the shift
\* gave 2 and the mask dropped it
C5_Witness ==
    /\ last.op = "addBit" /\ inm.inmN = 1 /\ last.index = 1
    /\ inm.inmPrevBit /\ hist.calls > INM_MIN_SAMPLE_SIZE

\* C6: no stop() hands a released table to free(), and the process survives
\* every stop().
C6_StopReleasesNothingTwice == ~heap.freedTwice /\ proc # "aborted"

\* C7: after a start that failed on allocation no pointer of the engine
\* designates a table, allocated or released.
C7_FailedStartLeavesNoReference ==
    (last.op = "start" /\ ~last.ok /\ last.N >= MIN_N /\ last.N <= MAX_N) =>
        /\ inm.inmOnesEven = NULL /\ inm.inmZerosEven = NULL
        /\ inm.inmOnesOdd = NULL /\ inm.inmZerosOdd = NULL

\* C8: start with N = 0 or N > 30 returns false, allocates nothing and
\* leaves every static as it was.
C8_InvalidWidthChangesNothing ==
    [][(last'.op = "start" /\ (last'.N = 0 \/ last'.N > 30)) =>
           ~last'.ok /\ inm' = inm /\ heap' = heap /\ proc' = proc]_vars

\* start(31, ..) is refused on an engine that has processed bits
C8_Witness ==
    /\ last.op = "start" /\ last.N = 31 /\ ~last.ok
    /\ inm.inmTotalBits > 0 /\ TablesLive(inm)

\* cell i of table n after a call that incremented cell last'.index of
\* TableOf(last'.bit, last'.even), before any scaling
Incremented(n, i) ==
    Cell(inm[n], i)
        + (IF n = TableOf(last'.bit, last'.even) /\ i = last'.index
           THEN 1 ELSE 0)

\* C9: a completed call scales exactly when the cell it incremented reached
\* INM_MAX_COUNT, and then every cell of all four tables is floor(old/2);
\* otherwise the tables are as the increment left them.
C9_ScalingAtCeilingHalvesAll ==
    [][(last'.op = "addBit" /\ ~last'.fatal) =>
          /\ last'.scaled <=>
                 Incremented(TableOf(last'.bit, last'.even), last'.index)
                     = INM_MAX_COUNT
          /\ \A n \in TableNames :
                 \A i \in (DOMAIN inm[n]) \cup (DOMAIN inm'[n])
                              \cup {last'.index} :
                     Cell(inm'[n], i) =
                         IF last'.scaled THEN Incremented(n, i) \div 2
                                         ELSE Incremented(n, i)]_vars

\* the call that brings inmZerosEven[0] to INM_MAX_COUNT has halved it and
\* the odd lane's cells
C9_Witness ==
    /\ last.op = "addBit" /\ last.scaled /\ last.count = INM_MAX_COUNT
    /\ Cell(inm.memZerosEven, 0) = INM_MAX_COUNT \div 2
    /\ Cell(inm.memOnesOdd, 0) = AtCeiling.inm.memOnesOdd[0] \div 2

\* C10: in every state every cell of the four tables is below INM_MAX_COUNT.
C10_CountsBelowCeiling ==
    \A n \in TableNames : \A i \in DOMAIN inm[n] : inm[n][i] < INM_MAX_COUNT

\* a call on the odd lane completes with inmZerosEven[0] one below the ceiling
C10_Witness ==
    /\ last.op = "addBit" /\ ~last.fatal /\ ~last.scaled /\ ~last.even
    /\ Cell(inm.memZerosEven, 0) = INM_MAX_COUNT - 1

\* the running probability after the call's multiplication and before its
\* emission loop: the probability before the call times count/total of the
\* cell the call looked up, unchanged when the count is zero
Product ==
    LET zeros == Cell(inm[TableOf(FALSE, last'.even)], last'.index)
        ones == Cell(inm[TableOf(TRUE, last'.even)], last'.index)
        count == IF last'.bit THEN ones ELSE zeros
    IN IF count # 0
       THEN (inm.inmCurrentProbability * count + zeros + ones - 1)
                \div (zeros + ones)
       ELSE inm.inmCurrentProbability

\* C11: once start has set N, the running probability is in (0.5, 1] in every
\* state; a completed addBit call doubles the product once per entropy unit
\* it credits and credits nothing else to numBitsOfEntropy.
C11_ProbabilityAboveHalf ==
    /\ [](inm.inmN >= MIN_N =>
              /\ 2 * inm.inmCurrentProbability > PROB_ONE
              /\ inm.inmCurrentProbability <= PROB_ONE)
    /\ [][(last'.op = "addBit" /\ ~last'.fatal) =>
              /\ inm'.inmCurrentProbability = Product * Pow2(last'.credited)
              /\ last'.credited > 0 =>
                     Product * Pow2(last'.credited) <= PROB_ONE
              /\ inm'.inmNumBitsOfEntropy = Credited(inm, last'.credited)]_vars

\* a call whose product was at or below 0.25 doubled it twice and credited
\* two units
C11_Witness ==
    /\ last.op = "addBit" /\ ~last.fatal /\ last.credited = 2
    /\ 2 * inm.inmCurrentProbability > PROB_ONE
    /\ inm.inmCurrentProbability <= PROB_ONE

\* C12: right after a start that returned true the statics are what the same
\* start leaves in a freshly loaded process, whatever was executed before.
C12_StartForgetsThePast ==
    (last.op = "start" /\ last.ok) =>
        inm = StartAssign(ZeroStatics, inm.inmN, inm.inmK, inm.inmDebug,
                          <<TRUE, TRUE, TRUE, TRUE>>)

Tracked ==
    IF last'.bit
    THEN /\ inm'.inmNumSequentialOnes = inm.inmNumSequentialOnes + 1
         /\ inm'.inmNumSequentialZeros = 0
    ELSE /\ inm'.inmNumSequentialZeros = inm.inmNumSequentialZeros + 1
         /\ inm'.inmNumSequentialOnes = 0

\* the run-length counters are 0 and the call was not fatal
Untracked ==
    /\ inm'.inmNumSequentialOnes = 0 /\ inm'.inmNumSequentialZeros = 0
    /\ ~last'.fatal

\* C15, as stated: every addBit call that finds at least 100 bits sampled
\* since start tracks its bit in the run-length counters; every earlier call
\* leaves the counters 0 and is not fatal.
C15_GuardFromHundredSampled ==
    [][last'.op = "addBit" =>
           IF inm.inmNumBitsSampled >= 100
           THEN Tracked ELSE Untracked]_vars

\* C15, amended: every addBit call that finds more than 100 bits sampled
\* since start (from the call that finds numBitsSampled = 101 onwards) tracks
\* its bit in the run-length counters; every earlier call, the one that
\* finds numBitsSampled = 100 included, leaves the counters 0 and is not
\* fatal.
C15_GuardAboveHundredSampled ==
    [][last'.op = "addBit" =>
           IF inm.inmNumBitsSampled > 100
           THEN Tracked ELSE Untracked]_vars

\* the call that found 101 bits sampled is the first to count: one run-length
\* counter is 1
C15_Witness ==
    /\ last.op = "addBit" /\ hist.calls = 102
    /\ inm.inmNumSequentialOnes + inm.inmNumSequentialZeros = 1

\* the count matching the observed bit that the call found in its lane's
\* table at its index
MatchingCount == Cell(inm[TableOf(last'.bit, last'.even)], last'.index)

\* zeros + ones of that cell
TotalCount ==
    Cell(inm[TableOf(FALSE, last'.even)], last'.index)
        + Cell(inm[TableOf(TRUE, last'.even)], last'.index)

\* C16: a completed addBit call that finds the matching count zero leaves the
\* running probability and the entropy level unchanged and credits no
\* entropy unit; one that finds it nonzero multiplies the probability by
\* count / (zeros + ones) of that cell, before the doublings of the
\* emission loop.
C16_ZeroCountIsNoOp ==
    [][(last'.op = "addBit" /\ ~last'.fatal) =>
          IF MatchingCount = 0
          THEN /\ inm'.inmCurrentProbability = inm.inmCurrentProbability
               /\ last'.credited = 0
               /\ inm'.inmNumBitsOfEntropy = Credited(inm, 0)
               /\ inm'.inmEntropyLevel = inm.inmEntropyLevel
          ELSE inm'.inmCurrentProbability =
                   ((inm.inmCurrentProbability * MatchingCount
                         + TotalCount - 1) \div TotalCount)
                       * Pow2(last'.credited)]_vars

\* a call found the matching count zero while the other count of the cell
\* was not: it brought the cell to 1, credited nothing and left the
\* probability at the 1.0 of start
C16_Witness ==
    /\ last.op = "addBit" /\ ~last.fatal /\ last.count = 1
    /\ Cell(inm[TableOf(~last.bit, last.even)], last.index) > 0
    /\ last.credited = 0 /\ inm.inmCurrentProbability = PROB_ONE

\* C17: the index an addBit call uses is the value of the shift register that
\* holds the N most recent observed bits of both lanes (0 before the first
\* call) and takes each bit in after its call: shifting the stored previous
\* bit in before the lookup comes to the same.
C17_IndexIsSharedWindow ==
    [][last'.op = "addBit" =>
           /\ last'.index = hist.window
           /\ ~last'.fatal =>
                  Cell(inm'[TableOf(last'.bit, last'.even)], hist.window)
                      = last'.count \div (IF last'.scaled THEN 2 ELSE 1)]_vars

\* with N = 3 a call used index 5: the three most recent bits before it were
\* 1, 0, 1 and the bit before those was dropped by the mask
C17_Witness ==
    /\ last.op = "addBit" /\ inm.inmN = 3 /\ last.index = 5
    /\ hist.calls = AtWidthThree.hist.calls + 2
    /\ hist.window = (2 * last.index + (IF last.bit THEN 1 ELSE 0)) % 8

\* what the call added to a lane's misfire counter: 1 when the call was for
\* that lane and the lane's bit differed from the stored one
EvenMisfire ==
    IF last'.even /\ inm'.inmPrevEven # inm.inmPrevEven THEN 1 ELSE 0

OddMisfire ==
    IF ~last'.even /\ inm'.inmPrevOdd # inm.inmPrevOdd THEN 1 ELSE 0

\* C18: the completed addBit call that brings numBitsSampled to INM_MIN_DATA
\* halves numBitsOfEntropy, numBitsSampled and both misfire counters, each to
\* floor(old/2); no other call halves any of them; numBitsSampled is below
\* INM_MIN_DATA in every state.
C18_CountersHalvedTogether ==
    /\ [](inm.inmNumBitsSampled < INM_MIN_DATA)
    /\ [][(last'.op = "addBit" /\ ~last'.fatal) =>
              LET d == IF inm.inmNumBitsSampled + 1 = INM_MIN_DATA
                       THEN 2 ELSE 1
              IN /\ inm'.inmNumBitsSampled
                        = (inm.inmNumBitsSampled + 1) \div d
                 /\ inm'.inmNumBitsOfEntropy
                        = (inm.inmNumBitsOfEntropy + last'.credited) \div d
                 /\ inm'.inmEvenMisfires
                        = (inm.inmEvenMisfires + EvenMisfire) \div d
                 /\ inm'.inmOddMisfires
                        = (inm.inmOddMisfires + OddMisfire) \div d]_vars

\* the 80000th call of the stream has halved the four counters: 40000 bits
\* sampled, and an odd number of even-lane misfires rounded down
C18_Witness ==
    /\ last.op = "addBit" /\ hist.calls = INM_MIN_DATA
    /\ inm.inmNumBitsSampled = INM_MIN_DATA \div 2
    /\ inm.inmEvenMisfires = AtFloor.inm.inmEvenMisfires \div 2
    /\ inm.inmOddMisfires = (AtFloor.inm.inmOddMisfires + 1) \div 2

\* numBitsSampled is where it stays after its first halving
AfterHalving(s) ==
    /\ s.inmNumBitsSampled >= INM_MIN_DATA \div 2
    /\ s.inmNumBitsSampled < INM_MIN_DATA

\* C19: no operation other than start takes numBitsSampled from above 100,
\* where the run-length guard is active, back to 100 or below; the call that
\* brings it to INM_MIN_DATA leaves it at half of that, and from then on it
\* stays within 40000..79999.
C19_GuardStaysActive ==
    [][last'.op # "start" =>
           /\ inm.inmNumBitsSampled > 100 => inm'.inmNumBitsSampled > 100
           /\ AfterHalving(inm) => AfterHalving(inm')
           /\ (last'.op = "addBit" /\ ~last'.fatal
                   /\ inm.inmNumBitsSampled + 1 = INM_MIN_DATA) =>
                  AfterHalving(inm')]_vars

\* the 120000th call of the stream brought numBitsSampled to INM_MIN_DATA for
\* the second time and left it at 40000, with the guard counting
C19_Witness ==
    /\ last.op = "addBit" /\ hist.calls = AtSecondFloor.hist.calls + 2
    /\ inm.inmNumBitsSampled = INM_MIN_DATA \div 2
    /\ inm.inmNumSequentialOnes + inm.inmNumSequentialZeros > 0


\* C20: every completed addBit call enters with the probability above 0.5,
\* multiplies it by a factor count / total of at least
\* 1 / (2 * (INM_MAX_COUNT - 1)) when the count is nonzero, and its emission
\* loop ends, with the probability above 0.5 again, after crediting at most
\* 15 entropy units, one per doubling.
C20_BoundedCredit ==
    [][(last'.op = "addBit" /\ ~last'.fatal) =>
           /\ 2 * inm.inmCurrentProbability > PROB_ONE
           /\ MatchingCount # 0 =>
                  TotalCount <= 2 * (INM_MAX_COUNT - 1) * MatchingCount
           /\ inm'.inmCurrentProbability = Product * Pow2(last'.credited)
           /\ last'.credited <= 15
           /\ 2 * inm'.inmCurrentProbability > PROB_ONE]_vars

\* a call that met a matching count of 1 (2 once counted) against 16383
\* others has credited 14 units in one go
C20_Witness ==
    /\ last.op = "addBit" /\ ~last.fatal
    /\ hist.calls = AtLopsided.hist.calls + 1
    /\ last.count = 2
    /\ last.credited = 14

============================================================================
